---- MODULE Spec2Model ----
(***************************************************************************)
(* FormValidator (src/unnamed/part_000, the variant with checkbox support; *)
(* src/src/form-validator.ts lines 170-433 is the same class without the   *)
(* checkbox branches).  The validator owns a Map fieldName -> TFieldConfig *)
(* and works on a form whose elements are found by id: input-{fieldName}   *)
(* and error-{fieldName}.                                                  *)
(*                                                                         *)
(* Strings the code inspects character by character (input values, numeric *)
(* attributes) are tuples of one-character strings.  Messages are strings; *)
(* the Russian texts of the default table are transliterated to ASCII.     *)
(* A JS number is Num(n) or NaN; null is Null; a missing rules argument is *)
(* Undefined.  A rules object is a function whose DOMAIN is its own keys.  *)
(***************************************************************************)
EXTENDS Integers, Sequences, FiniteSets, TLC

VARIABLES
    form,       \* the form handed to the constructor (#form), Null when the page has none
    inputs,     \* fieldName -> the element #input-{fieldName} of the form, or Null
    errorEls,   \* fieldName -> the element #error-{fieldName} of the form, or Null
    fields,     \* #fields: the Map, as the sequence of its entries in insertion order
    last,       \* the last step: the call made and its outcome, or a page edit
    steps       \* the number of steps taken

vars == <<form, inputs, errorEls, fields, last, steps>>

----------------------------------------------------------------------------
(* JS values *)

Null == [null |-> TRUE]
Undefined == [undefined |-> TRUE]
NaN == [nan |-> TRUE]
Num(n) == [n |-> n]

\* the comparison as it would be if not-a-number counted as 0
LtNaNAsZero(a, b) == (IF a = NaN THEN 0 ELSE a.n) < (IF b = NaN THEN 0 ELSE b.n)

\* the comparison as it would be if a value equal to the bound broke it (a <= b)
LtOrEqual(a, b) == a # NaN /\ b # NaN /\ a.n <= b.n

\* a < b on JS numbers: false as soon as one side is NaN
Lt(a, b) == a # NaN /\ b # NaN /\ a.n < b.n

\* `${v}` in a template literal, v a number or undefined
Str(v) == IF v = Undefined THEN "undefined" ELSE IF v = NaN THEN "NaN" ELSE ToString(v.n)

\* obj[key], undefined when the object has no such key
Get(obj, key) == IF key \in DOMAIN obj THEN obj[key] ELSE Undefined

DigitChars == {"0", "1", "2", "3", "4", "5", "6", "7", "8", "9"}

DigitVal(c) ==
    CASE c = "0" -> 0 [] c = "1" -> 1 [] c = "2" -> 2 [] c = "3" -> 3 [] c = "4" -> 4
      [] c = "5" -> 5 [] c = "6" -> 6 [] c = "7" -> 7 [] c = "8" -> 8 [] c = "9" -> 9

WhiteSpace == {" "}

RECURSIVE TrimStart(_)
TrimStart(s) == IF s # << >> /\ Head(s) \in WhiteSpace THEN TrimStart(Tail(s)) ELSE s

RECURSIVE TrimEnd(_)
TrimEnd(s) ==
    IF s # << >> /\ s[Len(s)] \in WhiteSpace THEN TrimEnd(SubSeq(s, 1, Len(s) - 1)) ELSE s

\* String.prototype.trim
Trim(s) == TrimEnd(TrimStart(s))

\* the value of the longest prefix of s made of decimal digits, after acc
RECURSIVE DigitsPrefix(_, _)
DigitsPrefix(s, acc) ==
    IF s # << >> /\ Head(s) \in DigitChars
    THEN DigitsPrefix(Tail(s), 10 * acc + DigitVal(Head(s)))
    ELSE acc

\* parseInt(s, 10): leading white space skipped, an optional sign, then the
\* longest run of digits; NaN when there is no digit there.  What follows the
\* digits is ignored.
ParseInt(s) ==
    LET t == TrimStart(s)
        neg == t # << >> /\ Head(t) = "-"
        d == IF neg THEN Tail(t) ELSE t
    IN  IF d = << >> \/ Head(d) \notin DigitChars THEN NaN
        ELSE Num((IF neg THEN -1 ELSE 1) * DigitsPrefix(d, 0))

\* parseFloat(s): on the strings of this model (no ".", no exponent) the
\* longest numeric prefix is the one parseInt reads.
ParseFloat(s) == ParseInt(s)

\* Number(s): the whole (trimmed) string must be a numeral; "" is 0.
NumberOf(s) ==
    LET t == Trim(s)
        neg == t # << >> /\ Head(t) = "-"
        d == IF neg THEN Tail(t) ELSE t
    IN  IF t = << >> THEN Num(0)
        ELSE IF d # << >> /\ \A i \in 1..Len(d) : d[i] \in DigitChars
        THEN Num((IF neg THEN -1 ELSE 1) * DigitsPrefix(d, 0))
        ELSE NaN

LetterChars == {"a", "b"}

\* new RegExp(source)
RegExpOf(source) == [source |-> source]

\* RegExp.prototype.test for the patterns of this model:
\*   "^[a-z]+$"  one or more letters and nothing else
\*   "[0-9]"     a digit somewhere (not anchored)
Test(re, s) ==
    CASE re.source = "^[a-z]+$" -> s # << >> /\ \A i \in 1..Len(s) : s[i] \in LetterChars
      [] re.source = "[0-9]" -> \E i \in 1..Len(s) : s[i] \in DigitChars
      [] OTHER -> FALSE

----------------------------------------------------------------------------
(* the form *)

HasAttribute(input, name) == name \in DOMAIN input.attrs

GetAttribute(input, name) == input.attrs[name]

\* this.#form.querySelector(`#input-${fieldName}`)
QueryInput(ins, fieldName) == IF fieldName \in DOMAIN ins THEN ins[fieldName] ELSE Null

\* this.#form.querySelector(`#error-${fieldName}`)
QueryError(errs, fieldName) == IF fieldName \in DOMAIN errs THEN errs[fieldName] ELSE Null

----------------------------------------------------------------------------
(* FormValidator *)

\* the validator instance: `this` in its methods
This == [this |-> TRUE]

\* constructor(form): #form = form, then form.setAttribute("novalidate", "true");
\* on a null form that call is a TypeError and no instance comes out
Constructor(f) ==
    IF f = Null
    THEN [threw |-> TRUE, error |-> "TypeError", form |-> Null]
    ELSE [threw |-> FALSE, error |-> "",
          form |-> [f EXCEPT !.attrs = [k \in DOMAIN f.attrs \cup {"novalidate"} |->
                                          IF k = "novalidate" THEN "true" ELSE f.attrs[k]]]]

StringTypes == {"text", "email", "password"}
FieldTypes == StringTypes \cup {"number", "checkbox"}

\* the keys of FinalStringRules, FinalNumberRules and FinalCheckboxRules
LegalKeys(type) ==
    IF type \in StringTypes THEN {"required", "getMessage", "pattern", "maxLength", "minLength"}
    ELSE IF type = "number" THEN {"required", "getMessage", "max", "min"}
    ELSE {"required", "getMessage", "checked"}

\* the entry `key |-> value` when cond holds, no entry otherwise
Entry(cond, key, value) == IF cond THEN key :> value ELSE << >>

InputNotFound(fieldName) == "Input not found: input-" \o fieldName

ExtractHtmlRules(ins, fieldName, type) ==
    LET input == QueryInput(ins, fieldName)
        has(a) == HasAttribute(input, a)
        attr(a) == GetAttribute(input, a)
    IN  IF input = Null
        THEN [threw |-> TRUE, error |-> InputNotFound(fieldName), rules |-> << >>,
              reads |-> {}]
        ELSE [threw |-> FALSE, error |-> "",
              reads |-> {"required"}
                        \cup (IF type # "number" THEN {"minlength", "maxlength", "pattern"}
                              ELSE {"min", "max"})
                        \cup (IF type = "checkbox" THEN {"data-checked"} ELSE {}),
              rules |->
                Entry(has("required"), "required", TRUE)
                @@ Entry(type # "number" /\ has("minlength"),
                         "minLength", ParseInt(attr("minlength")))
                @@ Entry(type # "number" /\ has("maxlength"),
                         "maxLength", ParseInt(attr("maxlength")))
                @@ Entry(type # "number" /\ has("pattern"),
                         "pattern", RegExpOf(attr("pattern")))
                @@ Entry(type = "number" /\ has("min"), "min", ParseFloat(attr("min")))
                @@ Entry(type = "number" /\ has("max"), "max", ParseFloat(attr("max")))
                @@ Entry(type = "checkbox" /\ has("data-checked"),
                         "checked", attr("data-checked") = "true")]

\* the merge as it would be with the spreads in the other order
MergeRulesHtmlWins(htmlRules, jsRules) ==
    IF jsRules = Undefined THEN htmlRules ELSE htmlRules @@ jsRules

\* { ...htmlRules, ...jsRules }: the keys of both, jsRules' value where it has the key
MergeRules(htmlRules, jsRules) ==
    IF jsRules = Undefined THEN htmlRules ELSE jsRules @@ htmlRules

\* Map.prototype.set as it would be if an existing key were deleted and set anew
MapSetMovesToEnd(map, key, value) ==
    Append(SelectSeq(map, LAMBDA e : e.fieldName # key), value)

\* Map.prototype.set as it would be if it never looked for the key
MapSetAppends(map, key, value) == Append(map, value)

\* Map.prototype.set: the value of an existing key is replaced where it is,
\* a new key is appended
MapSet(map, key, value) ==
    IF \E i \in 1..Len(map) : map[i].fieldName = key
    THEN [i \in 1..Len(map) |-> IF map[i].fieldName = key THEN value ELSE map[i]]
    ELSE Append(map, value)

MapHas(map, key) == \E i \in 1..Len(map) : map[i].fieldName = key

MapGet(map, key) == map[CHOOSE i \in 1..Len(map) : map[i].fieldName = key]

\* addField as it would be if the entry were stored before the rules are extracted
AddFieldStoresFirst(map, ins, fieldName, type, rules) ==
    LET html == ExtractHtmlRules(ins, fieldName, type)
        entry(h) == [fieldName |-> fieldName, type |-> type,
                     rules |-> IF rules = Undefined THEN << >> ELSE rules,
                     htmlRules |-> h, finalRules |-> MergeRules(h, rules)]
    IN  [fields |-> MapSet(map, fieldName, entry(html.rules)),
         threw |-> html.threw, error |-> html.error, reads |-> html.reads,
         returns |-> IF html.threw THEN Undefined ELSE This]

\* addField as it would be without `return this`
AddFieldReturnsVoid(map, ins, fieldName, type, rules) ==
    LET html == ExtractHtmlRules(ins, fieldName, type)
        finalRules == MergeRules(html.rules, rules)
    IN  IF html.threw
        THEN [fields |-> map, threw |-> TRUE, error |-> html.error, reads |-> html.reads,
              returns |-> Undefined]
        ELSE [fields |-> MapSet(map, fieldName,
                                [fieldName |-> fieldName,
                                 type |-> type,
                                 rules |-> IF rules = Undefined THEN << >> ELSE rules,
                                 htmlRules |-> html.rules,
                                 finalRules |-> finalRules]),
              threw |-> FALSE, error |-> "", reads |-> html.reads, returns |-> Undefined]

\* the #fields Map after addField({fieldName, type, rules}), whether the call threw
\* and with what message, the attributes it asked the input for (hasAttribute), and
\* the value it returned (none when it threw)
AddField(map, ins, fieldName, type, rules) ==
    LET html == ExtractHtmlRules(ins, fieldName, type)
        finalRules == MergeRules(html.rules, rules)
    IN  IF html.threw
        THEN [fields |-> map, threw |-> TRUE, error |-> html.error, reads |-> html.reads,
              returns |-> Undefined]
        ELSE [fields |-> MapSet(map, fieldName,
                                [fieldName |-> fieldName,
                                 type |-> type,
                                 rules |-> IF rules = Undefined THEN << >> ELSE rules,
                                 htmlRules |-> html.rules,
                                 finalRules |-> finalRules]),
              threw |-> FALSE, error |-> "", reads |-> html.reads, returns |-> This]

\* #getDefaultErrorMessage as it would be if each text took the bound of the other
\* side: minLength's text maxLength, min's text max, and back
GetDefaultErrorMessageOtherBound(rule, rules) ==
    CASE rule = "required" -> "Eto pole obyazatel'no"
      [] rule = "minLength" -> "Minimum " \o Str(Get(rules, "maxLength")) \o " simvolov"
      [] rule = "maxLength" -> "Maksimum " \o Str(Get(rules, "minLength")) \o " simvolov"
      [] rule = "pattern" -> "Nevernyj format"
      [] rule = "min" -> "Minimal'noe znachenie: " \o Str(Get(rules, "max"))
      [] rule = "max" -> "Maksimal'noe znachenie: " \o Str(Get(rules, "min"))
      [] rule = "checked" -> "Neobhodimo otmetit' chekboks"
      [] OTHER -> "Oshibka validacii"

GetDefaultErrorMessage(rule, rules) ==
    CASE rule = "required" -> "Eto pole obyazatel'no"
      [] rule = "minLength" -> "Minimum " \o Str(Get(rules, "minLength")) \o " simvolov"
      [] rule = "maxLength" -> "Maksimum " \o Str(Get(rules, "maxLength")) \o " simvolov"
      [] rule = "pattern" -> "Nevernyj format"
      [] rule = "min" -> "Minimal'noe znachenie: " \o Str(Get(rules, "min"))
      [] rule = "max" -> "Maksimal'noe znachenie: " \o Str(Get(rules, "max"))
      [] rule = "checked" -> "Neobhodimo otmetit' chekboks"
      [] OTHER -> "Oshibka validacii"

\* the message as it would be with ?? in place of ||: whatever getMessage returns is
\* used, the empty string too
MessageForAnyString(rule, rules) ==
    IF "getMessage" \in DOMAIN rules THEN rules.getMessage.returns
    ELSE GetDefaultErrorMessage(rule, rules)

\* the message as it would be with the operands of || in the other order
MessageForDefaultFirst(rule, rules) ==
    LET custom == IF "getMessage" \in DOMAIN rules THEN rules.getMessage.returns ELSE ""
        default == GetDefaultErrorMessage(rule, rules)
    IN  IF default # "" THEN default ELSE custom

\* rules.getMessage?.() || this.#getDefaultErrorMessage(rule, rules)
MessageFor(rule, rules) ==
    LET custom == IF "getMessage" \in DOMAIN rules THEN rules.getMessage.returns ELSE ""
    IN  IF custom # "" THEN custom ELSE GetDefaultErrorMessage(rule, rules)

\* the value the checks work on as it would be without .trim()
ValueOfUntrimmed(config, input) ==
    IF config.type = "checkbox" THEN input.checked ELSE input.value

\* the value #validateField works on: input.checked for a checkbox, else input.value.trim()
ValueOf(config, input) ==
    IF config.type = "checkbox" THEN input.checked ELSE Trim(input.value)

\* !value
Falsy(config, value) == IF config.type = "checkbox" THEN ~value ELSE value = << >>

\* #validateField as it would be with max checked before min
ViolatedRuleMaxFirst(config, input) ==
    LET value == ValueOf(config, input)
        rules == config.finalRules
        has(k) == k \in DOMAIN rules
    IN  IF has("required") /\ rules.required /\ Falsy(config, value) THEN "required"
        ELSE IF config.type # "checkbox" /\ Falsy(config, value) THEN "none"
        ELSE IF config.type = "number"
        THEN LET numValue == NumberOf(value)
             IN  IF has("max") /\ Lt(rules.max, numValue) THEN "max"
                 ELSE IF has("min") /\ Lt(numValue, rules.min) THEN "min"
                 ELSE "none"
        ELSE IF config.type # "checkbox"
        THEN IF has("minLength") /\ Lt(Num(Len(value)), rules.minLength) THEN "minLength"
             ELSE IF has("maxLength") /\ Lt(rules.maxLength, Num(Len(value))) THEN "maxLength"
             ELSE IF has("pattern") /\ ~Test(rules.pattern, value) THEN "pattern"
             ELSE "none"
        ELSE IF has("checked") /\ value # rules.checked THEN "checked"
        ELSE "none"

\* #validateField as it would be with the pattern checked before the lengths
ViolatedRulePatternFirst(config, input) ==
    LET value == ValueOf(config, input)
        rules == config.finalRules
        has(k) == k \in DOMAIN rules
    IN  IF has("required") /\ rules.required /\ Falsy(config, value) THEN "required"
        ELSE IF config.type # "checkbox" /\ Falsy(config, value) THEN "none"
        ELSE IF config.type = "number"
        THEN LET numValue == NumberOf(value)
             IN  IF has("min") /\ Lt(numValue, rules.min) THEN "min"
                 ELSE IF has("max") /\ Lt(rules.max, numValue) THEN "max"
                 ELSE "none"
        ELSE IF config.type # "checkbox"
        THEN IF has("pattern") /\ ~Test(rules.pattern, value) THEN "pattern"
             ELSE IF has("minLength") /\ Lt(Num(Len(value)), rules.minLength) THEN "minLength"
             ELSE IF has("maxLength") /\ Lt(rules.maxLength, Num(Len(value))) THEN "maxLength"
             ELSE "none"
        ELSE IF has("checked") /\ value # rules.checked THEN "checked"
        ELSE "none"

\* #validateField as it would be with a check that a number field's value is a
\* number, reported under a kind of its own
ViolatedRuleNotANumber(config, input) ==
    LET value == ValueOf(config, input)
        rules == config.finalRules
        has(k) == k \in DOMAIN rules
    IN  IF has("required") /\ rules.required /\ Falsy(config, value) THEN "required"
        ELSE IF config.type # "checkbox" /\ Falsy(config, value) THEN "none"
        ELSE IF config.type = "number"
        THEN LET numValue == NumberOf(value)
             IN  IF numValue = NaN THEN "number"
                 ELSE IF has("min") /\ Lt(numValue, rules.min) THEN "min"
                 ELSE IF has("max") /\ Lt(rules.max, numValue) THEN "max"
                 ELSE "none"
        ELSE IF config.type # "checkbox"
        THEN IF has("minLength") /\ Lt(Num(Len(value)), rules.minLength) THEN "minLength"
             ELSE IF has("maxLength") /\ Lt(rules.maxLength, Num(Len(value))) THEN "maxLength"
             ELSE IF has("pattern") /\ ~Test(rules.pattern, value) THEN "pattern"
             ELSE "none"
        ELSE IF has("checked") /\ value # rules.checked THEN "checked"
        ELSE "none"

\* #validateField as it would be without `if (!value) return null`
ViolatedRuleNoExemption(config, input) ==
    LET value == ValueOf(config, input)
        rules == config.finalRules
        has(k) == k \in DOMAIN rules
    IN  IF has("required") /\ rules.required /\ Falsy(config, value) THEN "required"
        ELSE IF config.type = "number"
        THEN LET numValue == NumberOf(value)
             IN  IF has("min") /\ Lt(numValue, rules.min) THEN "min"
                 ELSE IF has("max") /\ Lt(rules.max, numValue) THEN "max"
                 ELSE "none"
        ELSE IF config.type # "checkbox"
        THEN IF has("minLength") /\ Lt(Num(Len(value)), rules.minLength) THEN "minLength"
             ELSE IF has("maxLength") /\ Lt(rules.maxLength, Num(Len(value))) THEN "maxLength"
             ELSE IF has("pattern") /\ ~Test(rules.pattern, value) THEN "pattern"
             ELSE "none"
        ELSE IF has("checked") /\ value # rules.checked THEN "checked"
        ELSE "none"

\* the rule at whose check #validateField returns an error, "none" when it returns null
ViolatedRule(config, input) ==
    LET value == ValueOf(config, input)
        rules == config.finalRules
        has(k) == k \in DOMAIN rules
    IN  IF has("required") /\ rules.required /\ Falsy(config, value) THEN "required"
        ELSE IF config.type # "checkbox" /\ Falsy(config, value) THEN "none"
        ELSE IF config.type = "number"
        THEN LET numValue == NumberOf(value)
             IN  IF has("min") /\ Lt(numValue, rules.min) THEN "min"
                 ELSE IF has("max") /\ Lt(rules.max, numValue) THEN "max"
                 ELSE "none"
        ELSE IF config.type # "checkbox"
        THEN IF has("minLength") /\ Lt(Num(Len(value)), rules.minLength) THEN "minLength"
             ELSE IF has("maxLength") /\ Lt(rules.maxLength, Num(Len(value))) THEN "maxLength"
             ELSE IF has("pattern") /\ ~Test(rules.pattern, value) THEN "pattern"
             ELSE "none"
        ELSE IF has("checked") /\ value # rules.checked THEN "checked"
        ELSE "none"

\* #validateField as it would be without the early return on a missing input: the
\* field is then checked as an empty, unchecked input
ValidateFieldMissingAsEmpty(ins, config) ==
    LET found == QueryInput(ins, config.fieldName)
        input == IF found = Null THEN [attrs |-> << >>, value |-> << >>, checked |-> FALSE]
                 ELSE found
        rule == ViolatedRule(config, input)
    IN  IF rule = "none" THEN Null
        ELSE [fieldName |-> config.fieldName, message |-> MessageFor(rule, config.finalRules)]

\* #validateField as it would be if it read the input's markup again at each check
ValidateFieldFromMarkup(ins, config) ==
    LET input == QueryInput(ins, config.fieldName)
        now == MergeRules(ExtractHtmlRules(ins, config.fieldName, config.type).rules,
                          config.rules)
    IN  IF input = Null THEN Null
        ELSE LET rule == ViolatedRule([config EXCEPT !.finalRules = now], input)
             IN  IF rule = "none" THEN Null
                 ELSE [fieldName |-> config.fieldName, message |-> MessageFor(rule, now)]

ValidateField(ins, config) ==
    LET input == QueryInput(ins, config.fieldName)
    IN  IF input = Null THEN Null
        ELSE LET rule == ViolatedRule(config, input)
             IN  IF rule = "none" THEN Null
                 ELSE [fieldName |-> config.fieldName,
                       message |-> MessageFor(rule, config.finalRules)]

ShowError(errs, fieldName, message) ==
    IF QueryError(errs, fieldName) # Null
    THEN [errs EXCEPT ![fieldName] = [textContent |-> message, display |-> "block"]]
    ELSE errs

\* #clearErrors as it would be without `errorElement.style.display = "none"`
ClearErrorsTextOnly(map, errs) ==
    [n \in DOMAIN errs |->
        IF MapHas(map, n) /\ errs[n] # Null
        THEN [errs[n] EXCEPT !.textContent = ""]
        ELSE errs[n]]

ClearErrors(map, errs) ==
    [n \in DOMAIN errs |->
        IF MapHas(map, n) /\ errs[n] # Null
        THEN [textContent |-> "", display |-> "none"]
        ELSE errs[n]]

\* the forEach of validate as it would be if isValid were assigned, not cleared
RECURSIVE ValidateFromLastWins(_, _, _, _)
ValidateFromLastWins(map, ins, i, acc) ==
    IF i > Len(map) THEN acc
    ELSE LET error == ValidateField(ins, map[i])
         IN  ValidateFromLastWins(map, ins, i + 1,
                IF error # Null
                THEN [isValid |-> FALSE,
                      errorEls |-> ShowError(acc.errorEls, error.fieldName, error.message),
                      shown |-> Append(acc.shown, error)]
                ELSE [acc EXCEPT !.isValid = TRUE])

\* the forEach of validate as it would be if it stopped at the first error
RECURSIVE ValidateFromFirstOnly(_, _, _, _)
ValidateFromFirstOnly(map, ins, i, acc) ==
    IF i > Len(map) THEN acc
    ELSE LET error == ValidateField(ins, map[i])
         IN  IF error # Null
             THEN [isValid |-> FALSE,
                   errorEls |-> ShowError(acc.errorEls, error.fieldName, error.message),
                   shown |-> Append(acc.shown, error)]
             ELSE ValidateFromFirstOnly(map, ins, i + 1, acc)

\* the forEach of validate as it would be if it went through the Map from its last
\* entry to its first
RECURSIVE ValidateFromBackwards(_, _, _, _)
ValidateFromBackwards(map, ins, i, acc) ==
    IF i > Len(map) THEN acc
    ELSE LET error == ValidateField(ins, map[Len(map) + 1 - i])
         IN  ValidateFromBackwards(map, ins, i + 1,
                IF error # Null
                THEN [isValid |-> FALSE,
                      errorEls |-> ShowError(acc.errorEls, error.fieldName, error.message),
                      shown |-> Append(acc.shown, error)]
                ELSE acc)

\* this.#fields.forEach(...) of validate, from entry i on
RECURSIVE ValidateFrom(_, _, _, _)
ValidateFrom(map, ins, i, acc) ==
    IF i > Len(map) THEN acc
    ELSE LET error == ValidateField(ins, map[i])
         IN  ValidateFrom(map, ins, i + 1,
                IF error # Null
                THEN [isValid |-> FALSE,
                      errorEls |-> ShowError(acc.errorEls, error.fieldName, error.message),
                      shown |-> Append(acc.shown, error)]
                ELSE acc)

\* validate() as it would be if it did not clear and #showError added to the text
RECURSIVE ValidateFromAppending(_, _, _, _)
ValidateFromAppending(map, ins, i, acc) ==
    IF i > Len(map) THEN acc
    ELSE LET error == ValidateField(ins, map[i])
             n == map[i].fieldName
         IN  ValidateFromAppending(map, ins, i + 1,
                IF error # Null
                THEN [isValid |-> FALSE,
                      errorEls |->
                        IF QueryError(acc.errorEls, n) # Null
                        THEN [acc.errorEls EXCEPT
                                ![n] = [textContent |-> @.textContent \o error.message,
                                        display |-> "block"]]
                        ELSE acc.errorEls,
                      shown |-> Append(acc.shown, error)]
                ELSE acc)

ValidateAppending(map, ins, errs) ==
    ValidateFromAppending(map, ins, 1,
                          [isValid |-> TRUE, errorEls |-> errs, shown |-> << >>])

\* validate(): the result, the error elements afterwards, the #showError calls in order
Validate(map, ins, errs) ==
    ValidateFrom(map, ins, 1,
                 [isValid |-> TRUE, errorEls |-> ClearErrors(map, errs), shown |-> << >>])

----------------------------------------------------------------------------
(* the inputs of the model: pages, values typed by the user, calls *)

FieldNames == {"username", "age"}

Chars(str) ==
    CASE str = "" -> << >>
      [] str = " " -> <<" ">>
      [] str = "ab" -> <<"a", "b">>
      [] str = " ab " -> <<" ", "a", "b", " ">>
      [] str = "abab" -> <<"a", "b", "a", "b">>
      [] str = "ababa" -> <<"a", "b", "a", "b", "a">>
      [] str = "a1" -> <<"a", "1">>
      [] str = "3" -> <<"3">>
      [] str = "4" -> <<"4">>
      [] str = "15" -> <<"1", "5">>
      [] str = "18" -> <<"1", "8">>
      [] str = " 18 " -> <<" ", "1", "8", " ">>
      [] str = "100" -> <<"1", "0", "0">>
      [] str = "101" -> <<"1", "0", "1">>
      [] str = "1a" -> <<"1", "a">>
      [] str = "x" -> <<"x">>

\* what the user may have typed into an input
Values == {Chars(s) : s \in {"", " ", "ab", " ab ", "abab", "ababa", "a1",
                             "15", "18", " 18 ", "100", "101", "1a"}}

\* the attributes an input element may carry
Markups ==
    { << >>,
      [required |-> ""],
      [required |-> "", minlength |-> Chars("3"), maxlength |-> Chars("4"),
       pattern |-> "^[a-z]+$"],
      [minlength |-> Chars("x"), pattern |-> "[0-9]"],
      [required |-> "", min |-> Chars("18"), max |-> Chars("100")],
      [min |-> Chars("x"), max |-> Chars("100")],
      [required |-> "", minlength |-> Chars("3")] @@ ("data-checked" :> "true"),
      "data-checked" :> "false" }

InputElement(attrs, value, checked) == [attrs |-> attrs, value |-> value, checked |-> checked]

\* a form element as the page is loaded, its attributes not set
FormElement == [attrs |-> << >>]

\* an error element as the page is loaded: empty, its style.display not set
FreshErrorElement == [textContent |-> "", display |-> ""]

\* the rules objects a caller may pass, per key: no such key, or one of a few values
RequiredChoices == {<< >>, [required |-> TRUE], [required |-> FALSE]}
MinLengthChoices == {<< >>, [minLength |-> Num(3)], [minLength |-> Num(5)]}
MaxLengthChoices == {<< >>, [maxLength |-> Num(4)], [maxLength |-> Num(1)]}
PatternChoices == {<< >>, [pattern |-> RegExpOf("^[a-z]+$")]}
MinChoices == {<< >>, [min |-> Num(18)], [min |-> NaN]}
MaxChoices == {<< >>, [max |-> Num(100)], [max |-> Num(10)], [max |-> NaN]}
CheckedChoices == {<< >>, [checked |-> TRUE], [checked |-> FALSE]}
GetMessageChoices ==
    {<< >>, [getMessage |-> [returns |-> "Custom"]], [getMessage |-> [returns |-> ""]]}

\* FinalStringRules, FinalNumberRules, FinalCheckboxRules
StringRules ==
    {a @@ b @@ c @@ d @@ e : a \in RequiredChoices, b \in MinLengthChoices,
        c \in MaxLengthChoices, d \in PatternChoices, e \in GetMessageChoices}
NumberRules ==
    {a @@ b @@ c @@ e : a \in RequiredChoices, b \in MinChoices, c \in MaxChoices,
        e \in GetMessageChoices}
CheckboxRules ==
    {a @@ b @@ e : a \in RequiredChoices, b \in CheckedChoices, e \in GetMessageChoices}

\* AddFieldParams: the rules that go with a type, or none
RulesFor(type) ==
    {Undefined} \cup (IF type \in StringTypes THEN StringRules
                      ELSE IF type = "number" THEN NumberRules
                      ELSE CheckboxRules)

----------------------------------------------------------------------------
(* steps *)

\* new FormValidator(form): the form argument is in `form`
DoNew ==
    LET r == Constructor(form)
    IN  /\ last.op = "none"
        /\ form' = r.form
        /\ fields' = << >>
        /\ last' = [op |-> "new", threw |-> r.threw, error |-> r.error]
        /\ UNCHANGED <<inputs, errorEls>>

\* there is a validator to call: the constructor has run and returned
Constructed == last.op # "none" /\ ~(last.op = "new" /\ last.threw)

\* validator.addField({fieldName, type, rules}); `before` keeps the Map as the call found
\* it, `returned` the value of the call
DoAddField(fieldName, type, rules) ==
    LET r == AddField(fields, inputs, fieldName, type, rules)
    IN  /\ Constructed
        /\ fields' = r.fields
        /\ last' = [op |-> "addField", fieldName |-> fieldName, type |-> type,
                    rules |-> rules, threw |-> r.threw, error |-> r.error,
                    reads |-> r.reads, returned |-> r.returns, before |-> fields]
        /\ UNCHANGED <<form, inputs, errorEls>>

\* validator.validate(); `before` keeps the error elements as the call found them,
\* `repeat` says that the step before was a validate() too
DoValidate ==
    LET r == Validate(fields, inputs, errorEls)
    IN  /\ Constructed
        /\ errorEls' = r.errorEls
        /\ last' = [op |-> "validate", result |-> r.isValid, shown |-> r.shown,
                    before |-> errorEls, repeat |-> last.op = "validate"]
        /\ UNCHANGED <<form, inputs, fields>>

Edited == [op |-> "edit"]

\* the user types: input.value = v
SetValue(n, v) ==
    /\ inputs[n] # Null
    /\ inputs[n].value # v
    /\ inputs' = [inputs EXCEPT ![n].value = v]
    /\ last' = Edited
    /\ UNCHANGED <<form, errorEls, fields>>

\* input.setAttribute(a, v)
SetAttribute(n, a, v) ==
    /\ inputs[n] # Null
    /\ IF a \in DOMAIN inputs[n].attrs THEN inputs[n].attrs[a] # v ELSE TRUE
    /\ inputs' = [inputs EXCEPT
                    ![n].attrs = [k \in DOMAIN inputs[n].attrs \cup {a} |->
                                    IF k = a THEN v ELSE inputs[n].attrs[k]]]
    /\ last' = Edited
    /\ UNCHANGED <<form, errorEls, fields>>

\* input.removeAttribute(a)
RemoveAttribute(n, a) ==
    /\ inputs[n] # Null
    /\ a \in DOMAIN inputs[n].attrs
    /\ inputs' = [inputs EXCEPT
                    ![n].attrs = [k \in DOMAIN inputs[n].attrs \ {a} |-> inputs[n].attrs[k]]]
    /\ last' = Edited
    /\ UNCHANGED <<form, errorEls, fields>>

\* the input element leaves the form
RemoveInput(n) ==
    /\ inputs[n] # Null
    /\ inputs' = [inputs EXCEPT ![n] = Null]
    /\ last' = Edited
    /\ UNCHANGED <<form, errorEls, fields>>

\* the error element leaves the form
RemoveErrorElement(n) ==
    /\ errorEls[n] # Null
    /\ errorEls' = [errorEls EXCEPT ![n] = Null]
    /\ last' = Edited
    /\ UNCHANGED <<form, inputs, fields>>

----------------------------------------------------------------------------
(* Spec: a form with two fields; the application registers and validates, *)
(* the user types, the page changes                                       *)

MaxSteps == 4

\* the calls of the application
Calls ==
    { [fieldName |-> "username", type |-> "text", rules |-> Undefined],
      [fieldName |-> "username", type |-> "text",
       rules |-> [required |-> TRUE, minLength |-> Num(5)]],
      [fieldName |-> "username", type |-> "email",
       rules |-> [required |-> FALSE, getMessage |-> [returns |-> "Custom"]]],
      [fieldName |-> "username", type |-> "checkbox", rules |-> [checked |-> TRUE]],
      [fieldName |-> "age", type |-> "number", rules |-> Undefined],
      [fieldName |-> "age", type |-> "number", rules |-> [min |-> Num(18)]],
      [fieldName |-> "age", type |-> "text",
       rules |-> [maxLength |-> Num(4), getMessage |-> [returns |-> ""]]] }

TypedValues == {Chars(s) : s \in {"", "ab", "15"}}

AttributeEdits == {[name |-> "required", value |-> ""],
                   [name |-> "minlength", value |-> Chars("3")],
                   [name |-> "min", value |-> Chars("18")]}

Init ==
    /\ \E m \in {<< >>, [required |-> "", minlength |-> Chars("3"), min |-> Chars("18")]},
          v \in TypedValues :
          inputs = [n \in FieldNames |-> InputElement(m, v, FALSE)]
    /\ errorEls = [n \in FieldNames |-> FreshErrorElement]
    /\ form = Constructor(FormElement).form
    /\ fields = << >>
    /\ last = [op |-> "new", threw |-> FALSE, error |-> ""]
    /\ steps = 0

Step == steps < MaxSteps /\ steps' = steps + 1

AddFieldStep == Step /\ \E c \in Calls : DoAddField(c.fieldName, c.type, c.rules)

ValidateStep == Step /\ DoValidate

SetValueStep == Step /\ \E n \in FieldNames, v \in TypedValues : SetValue(n, v)

SetAttributeStep ==
    Step /\ \E n \in FieldNames, e \in AttributeEdits : SetAttribute(n, e.name, e.value)

RemoveAttributeStep ==
    Step /\ \E n \in FieldNames, e \in AttributeEdits : RemoveAttribute(n, e.name)

RemoveInputStep == Step /\ \E n \in FieldNames : RemoveInput(n)

RemoveErrorElementStep == Step /\ \E n \in FieldNames : RemoveErrorElement(n)

Next ==
    \/ AddFieldStep
    \/ ValidateStep
    \/ SetValueStep
    \/ SetAttributeStep
    \/ RemoveAttributeStep
    \/ RemoveInputStep
    \/ RemoveErrorElementStep

Spec == Init /\ [][Next]_vars

----------------------------------------------------------------------------
(* FieldSpec: one field of any page, type and rules, registered and then  *)
(* validated                                                              *)

FieldInit ==
    /\ \E m \in Markups, v \in Values, c \in BOOLEAN :
          inputs = [n \in FieldNames |->
                        IF n = "username" THEN InputElement(m, v, c) ELSE Null]
    /\ errorEls = [n \in FieldNames |->
                        IF n = "username" THEN FreshErrorElement ELSE Null]
    /\ form = Constructor(FormElement).form
    /\ fields = << >>
    /\ last = [op |-> "new", threw |-> FALSE, error |-> ""]
    /\ steps = 0

FieldRegister ==
    /\ last.op = "new"
    /\ \E t \in FieldTypes : \E r \in RulesFor(t) : DoAddField("username", t, r)
    /\ steps' = steps + 1

FieldValidate ==
    /\ last.op = "addField"
    /\ DoValidate
    /\ steps' = steps + 1

FieldNext == FieldRegister \/ FieldValidate

FieldSpec == FieldInit /\ [][FieldNext]_vars

----------------------------------------------------------------------------
(* NewSpec: the application from the start, the validator not yet built;  *)
(* the page may have no form, and then querySelector gave null            *)

NewInit ==
    /\ \/ /\ form = FormElement
          /\ \E m \in {<< >>, [required |-> "", minlength |-> Chars("3"), min |-> Chars("18")]},
                v \in TypedValues :
                inputs = [n \in FieldNames |-> InputElement(m, v, FALSE)]
          /\ errorEls = [n \in FieldNames |-> FreshErrorElement]
       \/ /\ form = Null
          /\ inputs = [n \in FieldNames |-> Null]
          /\ errorEls = [n \in FieldNames |-> Null]
    /\ fields = << >>
    /\ last = [op |-> "none"]
    /\ steps = 0

NewStep == Step /\ DoNew

NewNext == NewStep \/ Next

NewSpec == NewInit /\ [][NewNext]_vars

----------------------------------------------------------------------------
(* Properties *)

Registered == {fields[i].fieldName : i \in 1..Len(fields)}

\* the registered field of that name
Config(n) == MapGet(fields, n)

\* the field's check on the page as it is now finds a violation
Violates(c) == ValidateField(inputs, c) # Null

AddFieldDone == last.op = "addField" /\ ~last.threw
AddFieldThrew == last.op = "addField" /\ last.threw
ValidateDone == last.op = "validate"

\* C1: addField for a fieldName whose input-{fieldName} is not in the form throws
\* 'Input not found: input-{fieldName}' without having asked the input for any
\* attribute, and the Map is as the call found it (inversely, it throws only then).
C1_MissingInputThrows ==
    last.op = "addField" =>
        /\ last.threw <=> (QueryInput(inputs, last.fieldName) = Null)
        /\ last.threw =>
            /\ last.error = "Input not found: input-" \o last.fieldName
            /\ last.reads = {}
            /\ fields = last.before

\* an addField that threw for a name registered earlier, next to another field
C1_Witness ==
    /\ AddFieldThrew
    /\ Len(fields) = 2
    /\ last.fieldName \in Registered

\* C2: validate() returns true iff no registered field has a violation; with an
\* empty Map it returns true.
C2_ResultIffNoViolation ==
    ValidateDone =>
        /\ last.result <=> (\A i \in 1..Len(fields) : ~Violates(fields[i]))
        /\ fields = << >> => last.result

\* validate() returned false with a violating field followed by a valid one
C2_Witness ==
    /\ ValidateDone
    /\ ~last.result
    /\ Len(fields) = 2
    /\ Violates(fields[1])
    /\ ~Violates(fields[2])

\* C3: in one validate() call #showError is called, with its message, for every
\* registered field that violates its rules, and the field's error element (when
\* the form has one) shows that message, whatever the fields before it did.
C3_EveryViolationReported ==
    ValidateDone =>
        \A i \in 1..Len(fields) :
            Violates(fields[i]) =>
                LET error == ValidateField(inputs, fields[i])
                    el == QueryError(errorEls, fields[i].fieldName)
                IN  /\ \E j \in 1..Len(last.shown) : last.shown[j] = error
                    /\ el # Null =>
                         el = [textContent |-> error.message, display |-> "block"]

\* both fields violate and both error elements show a message
C3_Witness ==
    /\ ValidateDone
    /\ Len(fields) = 2
    /\ \A i \in 1..2 :
          /\ Violates(fields[i])
          /\ QueryError(errorEls, fields[i].fieldName) # Null
          /\ errorEls[fields[i].fieldName].display = "block"

\* rules.required is truthy
Required(c) == "required" \in DOMAIN c.finalRules /\ c.finalRules.required

\* the errors validate() showed for the field
ShownFor(n) == {j \in 1..Len(last.shown) : last.shown[j].fieldName = n}

Hidden == [textContent |-> "", display |-> "none"]

\* C4: a registered field whose effective rules do not set required and whose
\* value (a text: the input's value, trimmed) is empty has no violation in
\* validate(), whatever minLength, maxLength, pattern, min or max are set.
C4_EmptyOptionalExempt ==
    ValidateDone =>
        \A i \in 1..Len(fields) :
            LET c == fields[i]
                input == QueryInput(inputs, c.fieldName)
            IN  (/\ input # Null
                 /\ c.type # "checkbox"
                 /\ ~Required(c)
                 /\ Trim(input.value) = << >>)
                => /\ ShownFor(c.fieldName) = {}
                   /\ QueryError(errorEls, c.fieldName) = Hidden

\* a blank optional text field with minLength and pattern set has passed validate()
C4_Witness ==
    /\ ValidateDone /\ last.result
    /\ Len(fields) = 1
    /\ fields[1].type \in StringTypes
    /\ {"minLength", "pattern"} \subseteq DOMAIN fields[1].finalRules
    /\ ~Required(fields[1])
    /\ inputs[fields[1].fieldName].value = <<" ">>

\* C5: after addField, every key present in both the markup-derived rules and the
\* rules passed has in the effective rules the value passed.
C5_ExplicitOverridesMarkup ==
    (AddFieldDone /\ last.rules # Undefined) =>
        LET c == Config(last.fieldName)
        IN  \A k \in DOMAIN last.rules \cap DOMAIN c.htmlRules :
                c.finalRules[k] = last.rules[k]

\* minLength 5 passed over minlength="3", required: false over a required attribute
C5_Witness ==
    /\ AddFieldDone /\ last.rules # Undefined
    /\ {"minLength", "required"} \subseteq DOMAIN last.rules
    /\ last.rules.minLength = Num(5) /\ ~last.rules.required
    /\ LET c == Config(last.fieldName)
       IN  /\ {"minLength", "required"} \subseteq DOMAIN c.htmlRules
           /\ c.htmlRules.minLength = Num(3) /\ c.htmlRules.required
           /\ c.finalRules.minLength = Num(5) /\ ~c.finalRules.required

\* C6: for every FieldConfig the keys of the effective rules and of the
\* markup-derived rules are keys legal for the field's type.
C6_LegalKeysOnly ==
    \A i \in 1..Len(fields) :
        /\ DOMAIN fields[i].finalRules \subseteq LegalKeys(fields[i].type)
        /\ DOMAIN fields[i].htmlRules \subseteq LegalKeys(fields[i].type)

\* C7 as claimed: the message of a violation of a field whose effective rules carry
\* getMessage is what getMessage returns, whatever it returns.
C7_GetMessageVerbatim ==
    ValidateDone =>
        \A j \in 1..Len(last.shown) :
            LET c == Config(last.shown[j].fieldName)
            IN  "getMessage" \in DOMAIN c.finalRules =>
                    last.shown[j].message = c.finalRules.getMessage.returns

\* C7 as amended: the message is what getMessage returns when that is not the empty
\* string, for every kind of violation; when getMessage returns "", the message is
\* the default text of the violated rule.  The error element shows that message.
C7_GetMessageUnlessEmpty ==
    ValidateDone =>
        \A j \in 1..Len(last.shown) :
            LET c == Config(last.shown[j].fieldName)
                custom == c.finalRules.getMessage.returns
                rule == ViolatedRule(c, inputs[c.fieldName])
                message == IF custom # "" THEN custom
                           ELSE GetDefaultErrorMessage(rule, c.finalRules)
            IN  "getMessage" \in DOMAIN c.finalRules =>
                    /\ last.shown[j].message = message
                    /\ QueryError(errorEls, c.fieldName) # Null =>
                           errorEls[c.fieldName].textContent = message

\* a pattern violation shown with the text getMessage returns
C7_Witness ==
    /\ ValidateDone
    /\ Len(last.shown) = 1
    /\ LET c == Config(last.shown[1].fieldName)
       IN  /\ "getMessage" \in DOMAIN c.finalRules
           /\ ViolatedRule(c, inputs[c.fieldName]) = "pattern"
           /\ errorEls[c.fieldName].textContent = "Custom"

\* C8: after validate(), the error element of every registered field that has one
\* is visible with the field's message if the field has a violation in this pass,
\* and is empty and hidden otherwise (on the first pass as on a later one).
C8_ErrorElementsFollowPass ==
    ValidateDone =>
        \A i \in 1..Len(fields) :
            LET c == fields[i]
                el == QueryError(errorEls, c.fieldName)
            IN  el # Null =>
                    IF ShownFor(c.fieldName) # {}
                    THEN \E j \in ShownFor(c.fieldName) :
                            el = [textContent |-> last.shown[j].message, display |-> "block"]
                    ELSE el = Hidden

\* a field whose error an earlier pass had shown is valid in this pass, and its
\* error element is empty and hidden
C8_Witness ==
    /\ ValidateDone
    /\ last.result
    /\ \E n \in Registered :
          /\ last.before[n] # Null /\ last.before[n].display = "block"
          /\ ShownFor(n) = {}
          /\ errorEls[n] = Hidden

C10_ReRegisterReplaces ==
    /\ \A i, j \in 1..Len(fields) : fields[i].fieldName = fields[j].fieldName => i = j
    /\ AddFieldDone =>
        LET c == Config(last.fieldName)
            passed == IF last.rules = Undefined THEN << >> ELSE last.rules
            markup == ExtractHtmlRules(inputs, last.fieldName, last.type).rules
        IN  /\ c.type = last.type
            /\ c.rules = passed
            /\ c.htmlRules = markup
            /\ DOMAIN c.finalRules = DOMAIN passed \cup DOMAIN markup
            /\ \A k \in DOMAIN c.finalRules :
                  c.finalRules[k] = IF k \in DOMAIN passed THEN passed[k] ELSE markup[k]
            /\ Len(fields) = Len(last.before) + (IF MapHas(last.before, last.fieldName)
                                                 THEN 0 ELSE 1)

\* a name registered again with another type, and a rule of its earlier entry gone
C10_Witness ==
    /\ AddFieldDone
    /\ MapHas(last.before, last.fieldName)
    /\ LET old == MapGet(last.before, last.fieldName)
           new == Config(last.fieldName)
       IN  /\ old.type # new.type
           /\ DOMAIN old.finalRules \ DOMAIN new.finalRules # {}

\* the entry the field would have if it were registered now, on the page as it is
RegisteredNow(c) ==
    [c EXCEPT !.htmlRules = ExtractHtmlRules(inputs, c.fieldName, c.type).rules,
              !.finalRules = MergeRules(ExtractHtmlRules(inputs, c.fieldName, c.type).rules,
                                        c.rules)]

\* C11: the rules of a registered field are fixed at registration: a step that is not
\* an addField (a change of the markup or of the value, a validate()) leaves the Map as
\* it is, an addField leaves the entries of every other name as they are, and validate()
\* reports a field exactly when its value breaks the rules stored in the Map.
C11_RulesFixedAtRegistration ==
    [][/\ last'.op # "addField" => fields' = fields
       /\ last'.op = "addField" =>
            \A i \in 1..Len(fields) :
                fields[i].fieldName # last'.fieldName =>
                    i <= Len(fields') /\ fields'[i] = fields[i]
       /\ last'.op = "validate" =>
            \A i \in 1..Len(fields) :
                LET input == QueryInput(inputs, fields[i].fieldName)
                IN  input # Null =>
                        ((\E j \in 1..Len(last'.shown) :
                              last'.shown[j].fieldName = fields[i].fieldName)
                         <=> ViolatedRule(fields[i], input) # "none")]_vars

\* a validate() after the markup of a registered field changed: the stored rules are
\* not those of the markup any more, and the field is judged valid where the markup
\* as it is now makes it invalid
C11_Witness ==
    /\ ValidateDone
    /\ \E i \in 1..Len(fields) :
          LET c == fields[i]
              input == QueryInput(inputs, c.fieldName)
          IN  /\ input # Null
              /\ RegisteredNow(c).finalRules # c.finalRules
              /\ ShownFor(c.fieldName) = {}
              /\ ViolatedRule(RegisteredNow(c), input) # "none"

\* C12: when validate() runs and the input of a registered field is not in the form,
\* the field counts as valid: no error is shown for it, its error element (if there is
\* one) is hidden and empty, and the result is true exactly when no field whose input
\* is in the form breaks its rules.
C12_MissingInputIsValid ==
    ValidateDone =>
        /\ \A n \in Registered :
              QueryInput(inputs, n) = Null =>
                  /\ ShownFor(n) = {}
                  /\ QueryError(errorEls, n) # Null => QueryError(errorEls, n) = Hidden
        /\ last.result <=>
              \A i \in 1..Len(fields) :
                  QueryInput(inputs, fields[i].fieldName) # Null =>
                      ViolatedRule(fields[i], QueryInput(inputs, fields[i].fieldName)) = "none"

\* a validate() with a required field whose input has left the form, next to a field
\* that breaks its rules: the result is false on account of the other field alone
C12_Witness ==
    /\ ValidateDone
    /\ ~last.result
    /\ \E n, o \in Registered :
          /\ QueryInput(inputs, n) = Null
          /\ Required(Config(n))
          /\ ShownFor(n) = {}
          /\ QueryInput(inputs, o) # Null
          /\ ShownFor(o) # {}

\* the kind of the violation validate() reported for the field: the rule at whose
\* check the field's value fails
KindOf(n) == ViolatedRule(Config(n), QueryInput(inputs, n))

\* the violation of the field is reported as data: validate() returned false, one error
\* was shown for the field, its message is not the text for an unknown kind unless
\* getMessage gave it, and the field's error element (if there is one) displays it
ReportedAsData(n) ==
    /\ ~last.result
    /\ Cardinality(ShownFor(n)) = 1
    /\ \A j \in ShownFor(n) :
          /\ ("getMessage" \notin DOMAIN Config(n).finalRules
                => last.shown[j].message # "Oshibka validacii")
          /\ QueryError(errorEls, n) # Null =>
                QueryError(errorEls, n) =
                    [textContent |-> last.shown[j].message, display |-> "block"]

\* C13 as stated: every violation validate() reports is of one of the kinds required,
\* min, max, minLength, maxLength, pattern, and is reported as data.
C13_SixKinds ==
    ValidateDone =>
        \A n \in Registered :
            ShownFor(n) # {} =>
                /\ KindOf(n) \in {"required", "min", "max", "minLength", "maxLength", "pattern"}
                /\ ReportedAsData(n)

\* C13, amended: every violation validate() reports is of one of the kinds required,
\* min, max, minLength, maxLength, pattern or, for a checkbox field only, checked, and
\* is reported as data (false result, one message shown), never as an unknown kind.
C13_SevenKinds ==
    ValidateDone =>
        \A n \in Registered :
            ShownFor(n) # {} =>
                /\ KindOf(n) \in {"required", "min", "max", "minLength", "maxLength",
                                  "pattern", "checked"}
                /\ KindOf(n) = "checked" => Config(n).type = "checkbox"
                /\ ReportedAsData(n)

\* a checkbox field that must be checked and is not: the violation is of kind checked
C13_Witness ==
    /\ ValidateDone
    /\ ~last.result
    /\ \E n \in Registered :
          /\ KindOf(n) = "checked"
          /\ \E j \in ShownFor(n) : last.shown[j].message = "Neobhodimo otmetit' chekboks"
          /\ errorEls[n].textContent = "Neobhodimo otmetit' chekboks"

\* C14: constructing a FormValidator never throws, whatever the form argument is, null
\* included.
C14_ConstructorNeverThrows ==
    last.op = "new" => ~last.threw

\* C15: an addField that does not throw returns the validator it was called on, and the
\* names registered after it are those registered before it and the call's own: along
\* a chain of addField calls the instance is the same and every field is registered.
C15_AddFieldReturnsThis ==
    AddFieldDone =>
        /\ last.returned = This
        /\ Registered = {last.before[i].fieldName : i \in 1..Len(last.before)}
                            \cup {last.fieldName}

\* the second addField of a chain: two fields registered, the validator returned
C15_Witness ==
    /\ AddFieldDone
    /\ last.returned = This
    /\ Len(last.before) = 1
    /\ Len(fields) = 2
    /\ steps = 2

\* the value of a text-like field, as the checks see it: the input's value, trimmed
Text(n) == Trim(QueryInput(inputs, n).value)

\* the rules of a string-like field that its value breaks, each taken alone
Broken(n) ==
    LET rules == Config(n).finalRules
        has(k) == k \in DOMAIN rules
        len == Len(Text(n))
    IN  {k \in {"required", "minLength", "maxLength", "pattern"} :
            CASE k = "required" -> Required(Config(n)) /\ len = 0
              [] k = "minLength" ->
                    len > 0 /\ has("minLength") /\ rules.minLength # NaN
                            /\ len < rules.minLength.n
              [] k = "maxLength" ->
                    len > 0 /\ has("maxLength") /\ rules.maxLength # NaN
                            /\ len > rules.maxLength.n
              [] k = "pattern" -> len > 0 /\ has("pattern") /\ ~Test(rules.pattern, Text(n))}

\* the first of required, minLength, maxLength, pattern that is in the set
Earliest(kinds) ==
    IF "required" \in kinds THEN "required"
    ELSE IF "minLength" \in kinds THEN "minLength"
    ELSE IF "maxLength" \in kinds THEN "maxLength"
    ELSE "pattern"

\* C16: for a string-like field whose value breaks one or more of its rules, validate()
\* shows exactly one message, that of the earliest broken rule in the order required,
\* minLength, maxLength, pattern; when it breaks none, validate() shows none.
C16_FirstViolationWins ==
    ValidateDone =>
        \A n \in Registered :
            Config(n).type \in StringTypes /\ QueryInput(inputs, n) # Null =>
                IF Broken(n) = {} THEN ShownFor(n) = {}
                ELSE /\ Cardinality(ShownFor(n)) = 1
                     /\ \A j \in ShownFor(n) :
                           last.shown[j].message =
                               MessageFor(Earliest(Broken(n)), Config(n).finalRules)

\* a value too short that does not match the pattern either: the message shown is the
\* default text of minLength
C16_Witness ==
    /\ ValidateDone
    /\ \E n \in Registered :
          /\ Config(n).type \in StringTypes
          /\ Broken(n) = {"minLength", "pattern"}
          /\ "getMessage" \notin DOMAIN Config(n).finalRules
          /\ \E j \in ShownFor(n) :
                last.shown[j].message = "Minimum " \o Str(Config(n).finalRules.minLength)
                                            \o " simvolov"

\* the number field's value is a number below its min
BelowMin(n) ==
    LET rules == Config(n).finalRules
    IN  /\ "min" \in DOMAIN rules
        /\ rules.min # NaN
        /\ NumberOf(Text(n)) # NaN
        /\ NumberOf(Text(n)).n < rules.min.n

\* the number field's value is a number above its max
AboveMax(n) ==
    LET rules == Config(n).finalRules
    IN  /\ "max" \in DOMAIN rules
        /\ rules.max # NaN
        /\ NumberOf(Text(n)) # NaN
        /\ NumberOf(Text(n)).n > rules.max.n

\* validate() showed one error for the field, with the message of that kind
ShownAs(n, kind) ==
    /\ Cardinality(ShownFor(n)) = 1
    /\ \A j \in ShownFor(n) :
          last.shown[j].message = MessageFor(kind, Config(n).finalRules)

\* C17: for a number field, an empty value is judged by required alone (a required
\* violation when required is set, nothing otherwise, never min or max), and a value
\* that is not empty is reported as min when it is below min, whether or not it is also
\* above max, as max when it is only above max, and not at all otherwise.
C17_RequiredThenMinThenMax ==
    ValidateDone =>
        \A n \in Registered :
            Config(n).type = "number" /\ QueryInput(inputs, n) # Null =>
                IF Text(n) = << >>
                THEN IF Required(Config(n)) THEN ShownAs(n, "required") ELSE ShownFor(n) = {}
                ELSE IF BelowMin(n) THEN ShownAs(n, "min")
                ELSE IF AboveMax(n) THEN ShownAs(n, "max")
                ELSE ShownFor(n) = {}

\* a value below min and above max at once: the message shown is the default text of min
C17_Witness ==
    /\ ValidateDone
    /\ \E n \in Registered :
          /\ Config(n).type = "number"
          /\ BelowMin(n)
          /\ AboveMax(n)
          /\ "getMessage" \notin DOMAIN Config(n).finalRules
          /\ \E j \in ShownFor(n) :
                last.shown[j].message = "Minimal'noe znachenie: 18"

\* the value is within the field's bounds, the bounds themselves included: a number
\* between min and max, or a text whose length is between minLength and maxLength
\* (a bound that is not set or not a number bounds nothing)
WithinBounds(n, low, high, x) ==
    LET rules == Config(n).finalRules
    IN  /\ (low \in DOMAIN rules /\ rules[low] # NaN) => x >= rules[low].n
        /\ (high \in DOMAIN rules /\ rules[high] # NaN) => x <= rules[high].n

\* C18: the bounds are inclusive.  A number field whose value is a number is valid
\* exactly when min <= value <= max, and a string-like field whose value matches its
\* pattern (or has none) is valid exactly when minLength <= length <= maxLength, the
\* length being that of the trimmed value; the value is not empty in either case.
C18_BoundsInclusive ==
    ValidateDone =>
        \A n \in Registered :
            (QueryInput(inputs, n) # Null /\ Config(n).type # "checkbox") =>
                (Text(n) # << >> =>
                    IF Config(n).type = "number"
                    THEN NumberOf(Text(n)) # NaN =>
                            (ShownFor(n) = {} <=>
                                WithinBounds(n, "min", "max", NumberOf(Text(n)).n))
                    ELSE ("pattern" \in DOMAIN Config(n).finalRules
                             => Test(Config(n).finalRules.pattern, Text(n))) =>
                            (ShownFor(n) = {} <=>
                                WithinBounds(n, "minLength", "maxLength", Len(Text(n)))))

\* a number equal to its min, or a text as long as its minLength, found valid
C18_Witness ==
    /\ ValidateDone
    /\ last.result
    /\ \E n \in Registered :
          LET rules == Config(n).finalRules
          IN  \/ /\ Config(n).type = "number"
                 /\ "min" \in DOMAIN rules
                 /\ NumberOf(Text(n)) = rules.min
                 /\ rules.min # NaN
              \/ /\ Config(n).type \in StringTypes
                 /\ "minLength" \in DOMAIN rules
                 /\ Num(Len(Text(n))) = rules.minLength

\* the text of the default table for a violation of that kind of the field, the bound
\* of that kind written in decimal
DefaultText(n, kind) ==
    LET rules == Config(n).finalRules
    IN  CASE kind = "required" -> "Eto pole obyazatel'no"
          [] kind = "minLength" -> "Minimum " \o ToString(rules.minLength.n) \o " simvolov"
          [] kind = "maxLength" -> "Maksimum " \o ToString(rules.maxLength.n) \o " simvolov"
          [] kind = "pattern" -> "Nevernyj format"
          [] kind = "min" -> "Minimal'noe znachenie: " \o ToString(rules.min.n)
          [] kind = "max" -> "Maksimal'noe znachenie: " \o ToString(rules.max.n)
          [] kind = "checked" -> "Neobhodimo otmetit' chekboks"

\* C19: when a field with a violation has no getMessage in its rules, the message
\* validate() shows, and the text of the field's error element, is the default text of
\* the violation's kind, with the field's own bound of that kind in it for minLength,
\* maxLength, min and max.
C19_DefaultMessage ==
    ValidateDone =>
        \A n \in Registered :
            (ShownFor(n) # {} /\ "getMessage" \notin DOMAIN Config(n).finalRules) =>
                /\ \A j \in ShownFor(n) : last.shown[j].message = DefaultText(n, KindOf(n))
                /\ QueryError(errorEls, n) # Null =>
                      QueryError(errorEls, n).textContent = DefaultText(n, KindOf(n))

\* a text shorter than minLength 5 while maxLength is set too: the error element reads
\* 'Minimum 5 simvolov'
C19_Witness ==
    /\ ValidateDone
    /\ \E n \in Registered :
          /\ KindOf(n) = "minLength"
          /\ "getMessage" \notin DOMAIN Config(n).finalRules
          /\ "maxLength" \in DOMAIN Config(n).finalRules
          /\ Config(n).finalRules.minLength = Num(5)
          /\ errorEls[n].textContent = "Minimum 5 simvolov"

\* the names of the Map's entries, in the Map's order
Names(map) == [i \in 1..Len(map) |-> map[i].fieldName]

\* the place of the name's entry in the Map
Place(n) == CHOOSE i \in 1..Len(fields) : fields[i].fieldName = n

\* C20: the Map keeps the fields in the order of their registration (addField puts a
\* new name after all the others and leaves the order of the rest), and validate()
\* shows the errors in that order: of two errors shown, the one shown first is that of
\* the field that comes first in the Map.
C20_RegistrationOrder ==
    /\ AddFieldDone =>
          Names(fields) = IF MapHas(last.before, last.fieldName)
                          THEN Names(last.before)
                          ELSE Append(Names(last.before), last.fieldName)
    /\ ValidateDone =>
          \A j, k \in 1..Len(last.shown) :
              j < k => Place(last.shown[j].fieldName) < Place(last.shown[k].fieldName)

\* age registered before username, both with an error: the error of age is shown first
C20_Witness ==
    /\ ValidateDone
    /\ Names(fields) = <<"age", "username">>
    /\ Len(last.shown) = 2
    /\ last.shown[1].fieldName = "age"
    /\ last.shown[2].fieldName = "username"

\* the text without the blanks before its first and after its last character that is
\* not a blank; empty when the text is blanks only
Stripped(v) ==
    LET solid == {i \in 1..Len(v) : v[i] # " "}
    IN  IF solid = {} THEN << >>
        ELSE SubSeq(v, CHOOSE i \in solid : \A k \in solid : i <= k,
                       CHOOSE i \in solid : \A k \in solid : k <= i)

\* C21: a string-like field is checked on its value without leading and trailing
\* blanks: a value of blanks only is an empty one (a required violation when required
\* is set, nothing otherwise), and minLength, maxLength and pattern, in that order,
\* are judged on the stripped value and its length.
C21_ChecksUseTrimmedValue ==
    ValidateDone =>
        \A n \in Registered :
            Config(n).type \in StringTypes /\ QueryInput(inputs, n) # Null =>
                LET t == Stripped(QueryInput(inputs, n).value)
                    rules == Config(n).finalRules
                    has(k) == k \in DOMAIN rules
                IN  IF t = << >>
                    THEN IF Required(Config(n)) THEN ShownAs(n, "required")
                         ELSE ShownFor(n) = {}
                    ELSE IF has("minLength") /\ rules.minLength # NaN
                               /\ Len(t) < rules.minLength.n
                    THEN ShownAs(n, "minLength")
                    ELSE IF has("maxLength") /\ rules.maxLength # NaN
                               /\ Len(t) > rules.maxLength.n
                    THEN ShownAs(n, "maxLength")
                    ELSE IF has("pattern") /\ ~Test(rules.pattern, t)
                    THEN ShownAs(n, "pattern")
                    ELSE ShownFor(n) = {}

\* a value with blanks around it that is too short once stripped but not as typed, and
\* is reported as too short
C21_Witness ==
    /\ ValidateDone
    /\ \E n \in Registered :
          LET raw == QueryInput(inputs, n).value
              rules == Config(n).finalRules
          IN  /\ Config(n).type \in StringTypes
              /\ Stripped(raw) # raw
              /\ "minLength" \in DOMAIN rules
              /\ rules.minLength # NaN
              /\ Len(Stripped(raw)) < rules.minLength.n
              /\ Len(raw) >= rules.minLength.n
              /\ "getMessage" \notin DOMAIN rules
              /\ errorEls[n].textContent = DefaultText(n, "minLength")

\* C22: an error element that is displayed (style.display = "block", which only
\* validate() sets) never has an empty text, and no message validate() shows is the
\* empty string, whatever getMessage returns.
C22_VisibleErrorHasText ==
    /\ \A n \in FieldNames :
          (errorEls[n] # Null /\ errorEls[n].display = "block") =>
              errorEls[n].textContent # ""
    /\ ValidateDone => \A j \in 1..Len(last.shown) : last.shown[j].message # ""

\* two fields registered, the one with a getMessage that returns the empty string has
\* a violation: its error element is displayed and has a text
C22_Witness ==
    /\ ValidateDone
    /\ Len(fields) = 2
    /\ \E n \in Registered :
          /\ "getMessage" \in DOMAIN Config(n).finalRules
          /\ Config(n).finalRules.getMessage.returns = ""
          /\ ShownFor(n) # {}
          /\ errorEls[n] # Null
          /\ errorEls[n].display = "block"
          /\ errorEls[n].textContent # ""

\* the field's input is in the form and its value breaks the field's rules
HasViolation(n) ==
    /\ QueryInput(inputs, n) # Null
    /\ ViolatedRule(Config(n), QueryInput(inputs, n)) # "none"

\* C23: an addField for a name that is registered already leaves every name at its
\* place in the Map, its own included, and validate() shows the errors of the fields
\* that have one in the Map's order, which is thus the order in which the names were
\* registered for the first time.
C23_ReRegisterKeepsPlace ==
    /\ (AddFieldDone /\ MapHas(last.before, last.fieldName)) =>
          Names(fields) = Names(last.before)
    /\ ValidateDone =>
          [j \in 1..Len(last.shown) |-> last.shown[j].fieldName]
              = SelectSeq(Names(fields), HasViolation)

\* the first of two registered fields is registered again with other rules: it is
\* still the first
C23_Witness ==
    /\ AddFieldDone
    /\ Len(last.before) = 2
    /\ last.before[1].fieldName = last.fieldName
    /\ fields[1].fieldName = last.fieldName
    /\ fields[1] # last.before[1]
    /\ fields[2] = last.before[2]

\* the rules have that bound and it is not a number
NaNBound(n, k) == k \in DOMAIN Config(n).finalRules /\ Config(n).finalRules[k] = NaN

\* C24: a number field whose value, trimmed, is not empty and not a number (it has a
\* character that is not a digit) has no violation, whatever min and max are; and a
\* bound that is not a number never gives a violation: with such a min the field is
\* valid unless its value is above max, with such a max unless it is below min.
C24_NaNNeverViolates ==
    ValidateDone =>
        \A n \in Registered :
            (Config(n).type = "number" /\ QueryInput(inputs, n) # Null
                /\ Text(n) # << >>) =>
                /\ (\E i \in 1..Len(Text(n)) : Text(n)[i] \notin DigitChars)
                      => ShownFor(n) = {}
                /\ (NaNBound(n, "min") /\ ~AboveMax(n)) => ShownFor(n) = {}
                /\ (NaNBound(n, "max") /\ ~BelowMin(n)) => ShownFor(n) = {}

\* a number field with min and max set whose value has a letter in it: validate()
\* returns true
C24_Witness ==
    /\ ValidateDone
    /\ last.result
    /\ \E n \in Registered :
          /\ Config(n).type = "number"
          /\ "min" \in DOMAIN Config(n).finalRules
          /\ Config(n).finalRules.min = Num(18)
          /\ "max" \in DOMAIN Config(n).finalRules
          /\ Text(n) # << >>
          /\ \E i \in 1..Len(Text(n)) : Text(n)[i] \in LetterChars
====
